---- MODULE Spec2Model ----
(***************************************************************************)
(* HoloCommerce API (src/main.py): the product query engine, the category  *)
(* index and the session cart, over a document store.                      *)
(*                                                                         *)
(* The store handle `db` is either a live database or Python's None.  The  *)
(* collections "product" and "cart" are sequences of documents in the      *)
(* store's natural (insertion) order.  Prices are modelled in whole units  *)
(* and ratings in tenths, so every comparison of the source is exact.      *)
(***************************************************************************)
EXTENDS Integers, Sequences, FiniteSets, TLC

VARIABLES
    db,       \* TRUE: the store handle is live; FALSE: `db is None`
    product,  \* collection db["product"], natural order
    cart,     \* collection db["cart"], natural order
    query,    \* the parameters of the GET /api/products request being served
    resp,     \* the response most recently returned by a handler
    sess      \* per client: the upsert_cart call in flight (its locals)

vars == <<db, product, cart, query, resp, sess>>

-----------------------------------------------------------------------------
(* Python's Optional[T]: None is the empty tuple, a value v is <<v>>.      *)

None == <<>>

Some(v) == <<v>>

IsNone(o) == o = <<>>

The(o) == o[1]

Min(a, b) == IF a <= b THEN a ELSE b

-----------------------------------------------------------------------------
(* Bounds of the model.                                                    *)

\* documents the product collection holds at most
MaxProducts == 2

-----------------------------------------------------------------------------
(* Program constants.                                                      *)

\* limit: int = Query(default=50, ge=1, le=200)
LimitMin == 1

LimitMax == 200

\* the degraded-mode answer of get_categories
FallbackCategories ==
    <<"Watches", "Wearables", "Tech", "Wallets", "Jewelry", "Eyewear">>

-----------------------------------------------------------------------------
(* ObjectId and its str(): 24 hexadecimal digits in the source; the model  *)
(* keeps the two low digits of the counter the store allocates ids from.   *)

HexDigits ==
    <<"0", "1", "2", "3", "4", "5", "6", "7",
      "8", "9", "a", "b", "c", "d", "e", "f">>

ObjectIdStr(n) == <<HexDigits[((n \div 16) % 16) + 1], HexDigits[(n % 16) + 1]>>

\* doc["id"] = str(doc.pop("_id"))
Normalize(doc) ==
    [k \in (DOMAIN doc \ {"_id"}) \cup {"id"} |->
        IF k = "id" THEN ObjectIdStr(doc["_id"]) ELSE doc[k]]

-----------------------------------------------------------------------------
(* Text and the case-insensitive $regex match.  A text is a sequence of    *)
(* characters; the patterns of the model hold letters only, for which      *)
(* {"$regex": q, "$options": "i"} is a case-insensitive substring search.  *)

UpperCase == <<"A", "E", "I", "N", "B", "O", "T">>

LowerCase == <<"a", "e", "i", "n", "b", "o", "t">>

Lower(ch) ==
    IF \E i \in 1..Len(UpperCase) : UpperCase[i] = ch
    THEN LowerCase[CHOOSE i \in 1..Len(UpperCase) : UpperCase[i] = ch]
    ELSE ch

RegexMatchI(pattern, text) ==
    \E i \in 0..(Len(text) - Len(pattern)) :
        \A j \in 1..Len(pattern) : Lower(text[i + j]) = Lower(pattern[j])

\* {"tags": {"$regex": ...}}: an array field matches when an element does
RegexMatchAnyI(pattern, texts) ==
    \E t \in 1..Len(texts) : RegexMatchI(pattern, texts[t])

-----------------------------------------------------------------------------
(* The product collection.  Products are written by seed_products, once,   *)
(* when the application starts on an empty collection, and by whatever     *)
(* else administers the store; the handlers below only read, and answer    *)
(* from whatever the collection holds when they are called, an empty       *)
(* collection included.  Of a Product the model keeps the fields a query   *)
(* reads; the others pass through list_products untouched.                 *)

ProductPool ==
    << [title |-> <<"N", "e", "b">>, description |-> <<"s", "l", "i", "m">>,
        tags |-> << <<"r", "f">> >>,
        price |-> 100, category |-> "Wallets", rating |-> 47, featured |-> TRUE],
       [title |-> <<"I", "o", "n">>, description |-> <<"d", "o", "c", "k">>,
        tags |-> << >>,
        price |-> 100, category |-> "Tech", rating |-> 43, featured |-> FALSE],
       [title |-> <<"A", "e">>, description |-> <<"t", "i", "N", "E">>,
        tags |-> << <<"l", "u", "x">>, <<"n", "e", "o", "n">> >>,
        price |-> 0, category |-> "Watches", rating |-> 47, featured |-> FALSE] >>

\* the document as the store keeps it: the fields plus the key "_id"
WithId(fields, id) ==
    [k \in DOMAIN fields \cup {"_id"} |-> IF k = "_id" THEN id ELSE fields[k]]

\* what the collection may hold: up to MaxProducts documents drawn from the
\* pool, keyed 1, 2, ... in insertion order
StoreContents ==
    { [i \in DOMAIN idx |-> WithId(ProductPool[idx[i]], i)] :
        idx \in UNION { [1..n -> 1..Len(ProductPool)] : n \in 0..MaxProducts } }

-----------------------------------------------------------------------------
(* The parameters of list_products, as FastAPI hands them to the handler   *)
(* once its Query(...) constraints (ge=0, ge=1, le=200) have passed.       *)

Queries ==
    [ q         : {None, Some(<<>>), Some(<<"n", "e">>)},
      category  : {None, Some(""), Some("Watches")},
      min_price : {None, Some(0), Some(100)},
      max_price : {None, Some(0), Some(100)},
      featured  : {None, Some(FALSE), Some(TRUE)},
      sort      : {None, Some("price_asc"), Some("price_desc"),
                   Some("rating_desc"), Some("newest")},
      limit     : {LimitMin, 2, LimitMax} ]

-----------------------------------------------------------------------------
(* list_products, lines 192-209: the filter document.  A key of the        *)
(* Python dict that is not set is None here.                               *)

\* `if x:` on an Optional[str]: None and the empty string are falsy
TruthyText(o) == ~IsNone(o) /\ The(o) # <<>>

TruthyStr(o) == ~IsNone(o) /\ The(o) # ""

\* PriceCond with `if min_price:` for `if min_price is not None:`: a bound
\* of 0 is dropped
PriceCondTruthy(min_price, max_price) ==
    [gte |-> IF ~IsNone(min_price) /\ The(min_price) # 0 THEN min_price ELSE None,
     lte |-> IF ~IsNone(max_price) /\ The(max_price) # 0 THEN max_price ELSE None]

\* price_cond, lines 201-205
PriceCond(min_price, max_price) == [gte |-> min_price, lte |-> max_price]

BuildFilter(p) ==
    LET price_cond == PriceCond(p.min_price, p.max_price)
    IN  [ or       |-> IF TruthyText(p.q) THEN p.q ELSE None,
          category |-> IF TruthyStr(p.category) THEN p.category ELSE None,
          price    |-> IF ~IsNone(price_cond.gte) \/ ~IsNone(price_cond.lte)
                       THEN Some(price_cond) ELSE None,
          featured |-> IF ~IsNone(p.featured) THEN p.featured ELSE None ]

\* the store's evaluation of a filter document on one document: every key
\* that is set must hold; "$or" holds when one of its three regexes does
DocMatches(doc, filt) ==
    /\ IsNone(filt.or) \/
          \/ RegexMatchI(The(filt.or), doc.title)
          \/ RegexMatchI(The(filt.or), doc.description)
          \/ RegexMatchAnyI(The(filt.or), doc.tags)
    /\ IsNone(filt.category) \/ doc.category = The(filt.category)
    /\ IsNone(filt.price) \/
          /\ IsNone(The(filt.price).gte) \/ doc.price >= The(The(filt.price).gte)
          /\ IsNone(The(filt.price).lte) \/ doc.price <= The(The(filt.price).lte)
    /\ IsNone(filt.featured) \/ doc.featured = The(filt.featured)

RECURSIVE SelectDocs(_, _)
\* collection.find(filt): the matching documents, in natural order
SelectDocs(docs, filt) ==
    IF docs = <<>> THEN <<>>
    ELSE LET rest == SelectDocs(Tail(docs), filt)
         IN  IF DocMatches(Head(docs), filt) THEN <<Head(docs)>> \o rest ELSE rest

\* the place of doc in a sequence sorted on field: after every element that
\* does not come after it (equal keys keep their order)
RECURSIVE InsertSorted(_, _, _, _)
InsertSorted(doc, sorted, field, dir) ==
    IF sorted = <<>> THEN <<doc>>
    ELSE IF dir * Head(sorted)[field] <= dir * doc[field]
         THEN <<Head(sorted)>> \o InsertSorted(doc, Tail(sorted), field, dir)
         ELSE <<doc>> \o sorted

RECURSIVE SortDocs(_, _, _)
\* cursor.sort(field, dir): dir 1 ascending, -1 descending
SortDocs(docs, field, dir) ==
    IF docs = <<>> THEN <<>>
    ELSE InsertSorted(docs[Len(docs)],
                      SortDocs(SubSeq(docs, 1, Len(docs) - 1), field, dir),
                      field, dir)

\* ApplySort with the direction of price_desc reversed
ApplySortWrongDirection(cursor, sort) ==
    IF sort = Some("price_asc") THEN SortDocs(cursor, "price", 1)
    ELSE IF sort = Some("price_desc") THEN SortDocs(cursor, "price", 1)
    ELSE IF sort = Some("rating_desc") THEN SortDocs(cursor, "rating", -1)
    ELSE cursor

\* lines 212-217
ApplySort(cursor, sort) ==
    IF sort = Some("price_asc") THEN SortDocs(cursor, "price", 1)
    ELSE IF sort = Some("price_desc") THEN SortDocs(cursor, "price", -1)
    ELSE IF sort = Some("rating_desc") THEN SortDocs(cursor, "rating", -1)
    ELSE cursor

\* cursor.limit(n): the first n documents (0 means no limit to the store)
CursorLimit(cursor, n) ==
    IF n = 0 THEN cursor ELSE SubSeq(cursor, 1, Min(n, Len(cursor)))

\* lines 219-223
ListResult(cursor) ==
    LET items == [i \in 1..Len(cursor) |-> Normalize(cursor[i])]
    IN  [items |-> items, total |-> Len(items)]

\* list_products reporting as total the number of documents that matched
list_products_total_matched(p) ==
    IF ~db THEN [items |-> <<>>, total |-> 0]
    ELSE LET matched == SelectDocs(product, BuildFilter(p))
         IN  [items |-> ListResult(CursorLimit(ApplySort(matched, p.sort),
                                               p.limit)).items,
              total |-> Len(matched)]

\* lines 190-223
list_products(p) ==
    IF ~db THEN [items |-> <<>>, total |-> 0]
    ELSE ListResult(CursorLimit(ApplySort(SelectDocs(product, BuildFilter(p)),
                                          p.sort),
                                p.limit))

RECURSIVE Distinct(_, _)
\* collection.distinct(field): each value once, in order of first occurrence
Distinct(docs, field) ==
    IF docs = <<>> THEN <<>>
    ELSE LET init == Distinct(SubSeq(docs, 1, Len(docs) - 1), field)
             v == docs[Len(docs)][field]
         IN  IF \E i \in 1..Len(init) : init[i] = v THEN init ELSE Append(init, v)

\* get_categories reading the category of every product, repeats included
get_categories_all ==
    IF ~db THEN FallbackCategories
    ELSE [i \in 1..Len(product) |-> product[i].category]

\* lines 242-245
get_categories ==
    IF ~db THEN FallbackCategories ELSE Distinct(product, "category")

-----------------------------------------------------------------------------
(* The catalog requests.                                                   *)

Response(op, status, body) == [op |-> op, status |-> status, body |-> body]

ListProducts ==
    /\ ~IsNone(query)
    /\ resp' = Some(Response("list_products", "ok", list_products(The(query))))
    /\ UNCHANGED <<db, product, cart, query, sess>>

GetCategories ==
    /\ resp' = Some(Response("get_categories", "ok", get_categories))
    /\ UNCHANGED <<db, product, cart, query, sess>>

-----------------------------------------------------------------------------
(* The cart collection and its two handlers.  A Cart payload is what       *)
(* cart.model_dump() yields: session_id and the items, each a dict of      *)
(* product_id and quantity.                                                *)

Sessions == {"S", "T"}

ItemLists ==
    LET a == [product_id |-> "p1", quantity |-> 2]
        b == [product_id |-> "p2", quantity |-> 1]
    IN  {<<a>>, <<b>>, <<a, b>>}

Payloads == [session_id : Sessions, items : ItemLists]

Clients == {1, 2}

\* find_one on a key no cart document has: it finds nothing
find_one_wrong_key(coll, session_id) == None

\* collection.find_one({"session_id": s}): the first such document, or None
RECURSIVE find_one(_, _)
find_one(coll, session_id) ==
    IF coll = <<>> THEN None
    ELSE IF Head(coll).session_id = session_id THEN Some(Head(coll))
         ELSE find_one(Tail(coll), session_id)

\* update_one with "$push" for "$set": the items are added to those stored
update_one_push(coll, id, items) ==
    [i \in 1..Len(coll) |->
        IF coll[i]["_id"] = id /\ \A j \in 1..(i - 1) : coll[j]["_id"] # id
        THEN [coll[i] EXCEPT !.items = @ \o items] ELSE coll[i]]

\* collection.update_one({"_id": id}, {"$set": {"items": items}})
update_one(coll, id, items) ==
    IF \E i \in 1..Len(coll) : coll[i]["_id"] = id
    THEN LET k == CHOOSE i \in 1..Len(coll) :
                      /\ coll[i]["_id"] = id
                      /\ \A j \in 1..(i - 1) : coll[j]["_id"] # id
         IN  [coll EXCEPT ![k].items = items]
    ELSE coll

\* create_document(name, data) of database.py: inserts the document under
\* a fresh ObjectId and returns that id as a string
create_document(coll, data) ==
    LET id == Len(coll) + 1
    IN  [coll |-> Append(coll, WithId(data, id)), id |-> ObjectIdStr(id)]

\* get_cart, lines 250-257, on the cart collection coll
get_cart(coll, session_id) ==
    LET empty == [session_id |-> session_id, items |-> <<>>]
    IN  IF ~db THEN empty
        ELSE LET found == find_one(coll, session_id)
             IN  IF IsNone(found) THEN empty ELSE Normalize(The(found))

\* upsert_write merging the new items into the stored ones
upsert_write_merge(coll, payload, existing) ==
    IF ~IsNone(existing)
    THEN LET merged == The(existing).items \o payload.items
         IN  [coll |-> update_one(coll, The(existing)["_id"], merged),
              body |-> Normalize([The(existing) EXCEPT !.items = merged])]
    ELSE LET made == create_document(coll, payload)
         IN  [coll |-> made.coll,
              body |-> [k \in DOMAIN payload \cup {"id"} |->
                           IF k = "id" THEN made.id ELSE payload[k]]]

\* upsert_write inserting a new document on either branch
upsert_write_always_insert(coll, payload, existing) ==
    LET made == create_document(coll, payload)
    IN  [coll |-> made.coll,
         body |-> [k \in DOMAIN payload \cup {"id"} |->
                      IF k = "id" THEN made.id ELSE payload[k]]]

\* upsert_write as an atomic upsert: it looks the session up again as it
\* writes, and updates the document another call has inserted meanwhile
upsert_write_atomic(coll, payload, existing) ==
    LET now == find_one(coll, payload.session_id)
    IN  IF ~IsNone(now)
        THEN [coll |-> update_one(coll, The(now)["_id"], payload.items),
              body |-> Normalize([The(now) EXCEPT !.items = payload.items])]
        ELSE LET made == create_document(coll, payload)
             IN  [coll |-> made.coll,
                  body |-> [k \in DOMAIN payload \cup {"id"} |->
                               IF k = "id" THEN made.id ELSE payload[k]]]

\* upsert_cart, lines 266-274: the branch on `existing`, yielding the cart
\* collection it leaves and the dict it returns
upsert_write(coll, payload, existing) ==
    IF ~IsNone(existing)
    THEN [coll |-> update_one(coll, The(existing)["_id"], payload.items),
          body |-> Normalize([The(existing) EXCEPT !.items = payload.items])]
    ELSE LET made == create_document(coll, payload)
         IN  [coll |-> made.coll,
              body |-> [k \in DOMAIN payload \cup {"id"} |->
                           IF k = "id" THEN made.id ELSE payload[k]]]

IdleCall == [pc |-> "idle", payload |-> None, existing |-> None]

GetCart(session_id) ==
    /\ resp' = Some(Response("get_cart", "ok", get_cart(cart, session_id)))
    /\ UNCHANGED <<db, product, cart, query, sess>>

\* upsert_cart, lines 262-265: without a store the payload is returned as
\* it came; with one, the existence check, whose result the call keeps
UpsertBegin(c, payload) ==
    /\ sess[c].pc = "idle"
    /\ IF ~db
       THEN /\ resp' = Some(Response("upsert_cart", "ok", payload))
            /\ UNCHANGED sess
       ELSE /\ sess' = [sess EXCEPT ![c] =
                           [pc |-> "write",
                            payload |-> Some(payload),
                            existing |-> find_one(cart, payload.session_id)]]
            /\ UNCHANGED resp
    /\ UNCHANGED <<db, product, cart, query>>

\* upsert_cart, lines 266-274
UpsertFinish(c) ==
    /\ sess[c].pc = "write"
    /\ LET payload == The(sess[c].payload)
           done == upsert_write(cart, payload, sess[c].existing)
       IN  /\ cart' = done.coll
           /\ resp' = Some(Response("upsert_cart", "ok", done.body))
    /\ sess' = [sess EXCEPT ![c] = IdleCall]
    /\ UNCHANGED <<db, product, query>>

NoCallInFlight == \A c \in Clients : sess[c].pc = "idle"

-----------------------------------------------------------------------------
(* Specifications.  The catalog handlers touch only the product            *)
(* collection and the cart handlers only the cart collection, so each      *)
(* group is run on its own collection.  The handlers are plain `def`s that *)
(* FastAPI runs on worker threads: two upsert_cart calls may interleave at *)
(* their store operations, which is what Spec allows and SeqSpec excludes. *)

\* the cart handlers, their store steps interleaved freely
Init ==
    /\ db \in BOOLEAN
    /\ product = <<>>
    /\ cart = <<>>
    /\ query = None
    /\ resp = None
    /\ sess = [c \in Clients |-> IdleCall]

Next ==
    \/ \E s \in Sessions : GetCart(s)
    \/ \E c \in Clients, payload \in Payloads : UpsertBegin(c, payload)
    \/ \E c \in Clients : UpsertFinish(c)

Spec == Init /\ [][Next]_vars

\* the cart handlers, one upsert_cart at a time
SeqNext ==
    \/ \E s \in Sessions : GetCart(s)
    \/ \E c \in Clients, payload \in Payloads :
           NoCallInFlight /\ UpsertBegin(c, payload)
    \/ \E c \in Clients : UpsertFinish(c)

SeqSpec == Init /\ [][SeqNext]_vars

\* one GET /api/products or GET /api/categories request on a catalog
CatalogInit ==
    /\ db \in BOOLEAN
    /\ product \in (IF db THEN StoreContents ELSE {<<>>})
    /\ cart = <<>>
    /\ query \in {Some(p) : p \in Queries}
    /\ resp = None
    /\ sess = [c \in Clients |-> IdleCall]

CatalogNext == ListProducts \/ GetCategories

CatalogSpec == CatalogInit /\ [][CatalogNext]_vars

\* every handler, with no store configured
DegradedInit == CatalogInit /\ ~db

DegradedNext ==
    \/ ListProducts
    \/ GetCategories
    \/ \E s \in Sessions : GetCart(s)
    \/ \E c \in Clients, payload \in Payloads : UpsertBegin(c, payload)

DegradedSpec == DegradedInit /\ [][DegradedNext]_vars

-----------------------------------------------------------------------------
(* Reading the latest response.                                            *)

Returned(op) == ~IsNone(resp) /\ The(resp).op = op

Body == The(resp).body

\* the place in the product collection of the document a returned item shows
PlaceOf(item) ==
    CHOOSE k \in 1..Len(product) : ObjectIdStr(product[k]["_id"]) = item.id

\* the documents of docs that satisfy P, in the order of docs
RECURSIVE Keep(_, _, _)
Keep(docs, P(_, _), p) ==
    IF docs = <<>> THEN <<>>
    ELSE LET rest == Keep(Tail(docs), P, p)
         IN  IF P(Head(docs), p) THEN <<Head(docs)>> \o rest ELSE rest

\* the text filter: q matches title, description or a tag, whatever its case
TextHolds(doc, q) ==
    \/ RegexMatchI(q, doc.title)
    \/ RegexMatchI(q, doc.description)
    \/ RegexMatchAnyI(q, doc.tags)

\* every filter that was given holds of doc
EveryGivenFilterHolds(doc, p) ==
    /\ ~IsNone(p.q) => TextHolds(doc, The(p.q))
    /\ ~IsNone(p.category) => doc.category = The(p.category)
    /\ ~IsNone(p.min_price) => doc.price >= The(p.min_price)
    /\ ~IsNone(p.max_price) => doc.price <= The(p.max_price)
    /\ ~IsNone(p.featured) => doc.featured = The(p.featured)

\* the same, with an empty category string counted as no category filter
EveryAppliedFilterHolds(doc, p) ==
    EveryGivenFilterHolds(doc, IF p.category = Some("")
                               THEN [p EXCEPT !.category = None] ELSE p)

\* the first `limit` of the documents satisfying P, in the requested order
FirstMatching(P(_, _), p) ==
    LET ordered == ApplySort(Keep(product, P, p), p.sort)
        n == Min(p.limit, Len(ordered))
    IN  [i \in 1..n |-> Normalize(ordered[i])]

-----------------------------------------------------------------------------
(* C7: list_products returns at most `limit` items and reports as total    *)
(* the number of items it returns; with no store it returns no item and    *)
(* total 0.                                                                *)
C7_LimitAndTotal ==
    Returned("list_products") =>
        /\ The(resp).status = "ok"
        /\ Len(Body.items) <= The(query).limit
        /\ Body.total = Len(Body.items)
        /\ ~db => Body.items = <<>> /\ Body.total = 0

\* a listing that the limit cut short: more documents matched than returned
C7_Witness ==
    /\ Returned("list_products") /\ db
    /\ Len(Body.items) = The(query).limit
    /\ Len(SelectDocs(product, BuildFilter(The(query)))) > The(query).limit

(* C8 as claimed: every returned item satisfies every filter that was      *)
(* given, an empty category string included; the result is the first       *)
(* `limit` such records in the requested order; an inverted price range    *)
(* yields no item, total 0 and no error.                                   *)
C8_EveryGivenFilter ==
    Returned("list_products") /\ db =>
        /\ The(resp).status = "ok"
        /\ \A i \in 1..Len(Body.items) :
               EveryGivenFilterHolds(product[PlaceOf(Body.items[i])], The(query))
        /\ Body.items = FirstMatching(EveryGivenFilterHolds, The(query))

(* C8, amended: the same for the filters list_products applies, which are  *)
(* q, min_price, max_price and featured whenever given (0 and false        *)
(* included) and category when it is a non-empty string.                   *)
C8_Conjunctive ==
    Returned("list_products") /\ db =>
        /\ The(resp).status = "ok"
        /\ \A i \in 1..Len(Body.items) :
               EveryAppliedFilterHolds(product[PlaceOf(Body.items[i])], The(query))
        /\ Body.items = FirstMatching(EveryAppliedFilterHolds, The(query))
        /\ (/\ ~IsNone(The(query).min_price) /\ ~IsNone(The(query).max_price)
            /\ The(The(query).min_price) > The(The(query).max_price))
           => Body = [items |-> <<>>, total |-> 0]

\* max_price = 0 and featured = false select a free, unfeatured product and
\* leave the others out
C8_Witness ==
    /\ Returned("list_products") /\ db
    /\ The(query).max_price = Some(0) /\ The(query).featured = Some(FALSE)
    /\ Body.items # <<>>
    /\ Len(Body.items) < Len(product)
    /\ Len(Body.items) < The(query).limit

Sorted(items, field, dir) ==
    \A i, j \in 1..Len(items) :
        i < j => /\ dir * items[i][field] <= dir * items[j][field]
                 /\ items[i][field] = items[j][field]
                        => PlaceOf(items[i]) < PlaceOf(items[j])

(* C9: price_asc lists prices non-decreasing, price_desc non-increasing,   *)
(* rating_desc ratings non-increasing, equal keys in natural order; no     *)
(* sort lists in natural order; any other sort value lists exactly what no *)
(* sort value lists, without error.                                        *)
C9_SortContract ==
    Returned("list_products") /\ db =>
        LET p == The(query)
        IN  /\ The(resp).status = "ok"
            /\ p.sort = Some("price_asc") => Sorted(Body.items, "price", 1)
            /\ p.sort = Some("price_desc") => Sorted(Body.items, "price", -1)
            /\ p.sort = Some("rating_desc") => Sorted(Body.items, "rating", -1)
            /\ p.sort = None =>
                   \A i, j \in 1..Len(Body.items) :
                       i < j => PlaceOf(Body.items[i]) < PlaceOf(Body.items[j])
            /\ p.sort \notin {Some("price_asc"), Some("price_desc"),
                              Some("rating_desc")}
                   => Body = list_products([p EXCEPT !.sort = None])

\* rating_desc moved the product stored second in front of the first
C9_Witness ==
    /\ Returned("list_products") /\ db
    /\ The(query).sort = Some("rating_desc")
    /\ Len(Body.items) = 2
    /\ Body.items[1].rating > Body.items[2].rating
    /\ PlaceOf(Body.items[1]) = 2

CategoriesOf(docs) == {docs[i].category : i \in 1..Len(docs)}

NoRepeat(seq) == \A i, j \in 1..Len(seq) : seq[i] = seq[j] => i = j

(* C10 as claimed: get_categories returns the six-entry fallback list when *)
(* the store is unavailable and when it holds no product, and the distinct *)
(* categories of the stored products otherwise.                            *)
C10_FallbackWhenEmpty ==
    Returned("get_categories") =>
        /\ (~db \/ product = <<>>) => Body = FallbackCategories
        /\ (db /\ product # <<>>) =>
               NoRepeat(Body) /\ {Body[i] : i \in 1..Len(Body)} = CategoriesOf(product)

(* C10, amended: get_categories returns the six-entry fallback list when   *)
(* the store is unavailable; with the store available it returns the       *)
(* categories of the stored products, each exactly once, which is the      *)
(* empty list when no product is stored.                                   *)
C10_Categories ==
    Returned("get_categories") =>
        /\ The(resp).status = "ok"
        /\ ~db => Body = FallbackCategories
        /\ db => NoRepeat(Body) /\ {Body[i] : i \in 1..Len(Body)} = CategoriesOf(product)

\* two products of one category
C10_Witness ==
    /\ Returned("get_categories") /\ db
    /\ Len(product) = 2
    /\ Len(Body) = 1

-----------------------------------------------------------------------------
(* The cart claims.                                                        *)

\* the documents the cart collection holds for a session
DocsOf(coll, session_id) == {i \in 1..Len(coll) : coll[i].session_id = session_id}

\* this step is the return of client c's upsert_cart call
Finishes(c) == sess[c].pc = "write" /\ sess'[c].pc = "idle"

\* the response the step returns
Body1 == The(resp').body

(* C1: with the store available and one upsert at a time, get_cart(S)      *)
(* returns no item before any upsert for S, exactly the items of an upsert *)
(* for S once it has returned, and the same items after any other step: so *)
(* it always shows the items list of the most recent upsert for S, whole   *)
(* and in order, and nothing of an earlier one.                            *)
C1_FullReplace ==
    /\ \A s \in Sessions : get_cart(cart, s).items = <<>>
    /\ [][ db => \A s \in Sessions :
               IF \E c \in Clients :
                      Finishes(c) /\ The(sess[c].payload).session_id = s
               THEN \A c \in Clients :
                      Finishes(c) =>
                          /\ get_cart(cart', s).items = The(sess[c].payload).items
                          /\ Body1.items = The(sess[c].payload).items
               ELSE get_cart(cart', s).items = get_cart(cart, s).items ]_vars

\* an upsert for S returned after T's cart was created behind S's: it
\* replaced the items of the cart S already had
C1_Witness ==
    /\ db /\ Len(cart) = 2 /\ cart[1].session_id = "S"
    /\ Returned("upsert_cart") /\ Body.session_id = "S"
    /\ Len(Body.items) = 1 /\ Body.items[1].product_id = "p2"
    /\ get_cart(cart, "S").items = Body.items
    /\ NoCallInFlight

(* C2: with one upsert at a time, the cart collection never holds two      *)
(* documents for one session_id.                                           *)
C2_OneCartPerSession ==
    \A s \in Sessions : Cardinality(DocsOf(cart, s)) <= 1

\* both sessions have a cart and the older one has just been upserted again
C2_Witness ==
    /\ Len(cart) = 2
    /\ Returned("upsert_cart") /\ Body.id = ObjectIdStr(cart[1]["_id"])
    /\ cart[1].items = Body.items

(* C3: an upsert_cart call that read "no existing cart" inserts a new      *)
(* document when it resumes, whatever the collection holds by then, and no *)
(* step ever lowers the number of documents of a session: two calls that   *)
(* both ran the existence check for a new session before either inserted   *)
(* leave two documents for it, for good.                                   *)
C3_FirstWriteRace ==
    [][ /\ \A c \in Clients :
              Finishes(c) /\ IsNone(sess[c].existing) =>
                  /\ Len(cart') = Len(cart) + 1
                  /\ cart'[Len(cart')].session_id = The(sess[c].payload).session_id
                  /\ cart'[Len(cart')].items = The(sess[c].payload).items
        /\ \A s \in Sessions :
              Cardinality(DocsOf(cart', s)) >= Cardinality(DocsOf(cart, s)) ]_vars

\* both calls have returned and the session has two cart documents
C3_Witness ==
    /\ NoCallInFlight
    /\ \E s \in Sessions : Cardinality(DocsOf(cart, s)) = 2

(* C4: an upsert_cart whose existence check found a cart document for the  *)
(* session returns that document's id, the id get_cart reports before and  *)
(* after, adds no document and changes nothing but that document's items;  *)
(* one whose check found none appends exactly one document, under an id no *)
(* other document has, and returns that id.  This holds however the calls  *)
(* interleave.                                                             *)
C4_IdentityPreserved ==
    [][ \A c \in Clients : Finishes(c) =>
          LET payload == The(sess[c].payload)
              s == payload.session_id
              found == sess[c].existing
          IN  IF ~IsNone(found)
              THEN /\ Body1.id = ObjectIdStr(The(found)["_id"])
                   /\ get_cart(cart, s).id = Body1.id
                   /\ get_cart(cart', s).id = Body1.id
                   /\ Len(cart') = Len(cart)
                   /\ \A i \in 1..Len(cart) :
                          cart'[i] = IF cart[i]["_id"] = The(found)["_id"]
                                     THEN [cart[i] EXCEPT !.items = payload.items]
                                     ELSE cart[i]
              ELSE /\ Len(cart') = Len(cart) + 1
                   /\ SubSeq(cart', 1, Len(cart)) = cart
                   /\ cart'[Len(cart')].session_id = s
                   /\ cart'[Len(cart')].items = payload.items
                   /\ \A i \in 1..Len(cart) :
                          cart[i]["_id"] # cart'[Len(cart')]["_id"]
                   /\ Body1.id = ObjectIdStr(cart'[Len(cart')]["_id"]) ]_vars

\* the second cart document's session was upserted again and answered with
\* the id it was created under, its items changed
C4_Witness ==
    /\ Len(cart) = 2
    /\ Returned("upsert_cart") /\ Body.id = ObjectIdStr(cart[2]["_id"])
    /\ Body.session_id = cart[2].session_id
    /\ Len(cart[2].items) = 2
    /\ Len(cart[1].items) = 1

(* C5: an upsert_cart that repeats the payload of the call answered just   *)
(* before it returns the same items as that call and leaves what get_cart  *)
(* returns, and the whole cart collection, as the first call left them;    *)
(* without a store both calls return the payload's items and get_cart is   *)
(* unchanged.                                                              *)
C5_Idempotent ==
    [][ /\ \A c \in Clients :
              (/\ Finishes(c)
               /\ Returned("upsert_cart")
               /\ Body.session_id = The(sess[c].payload).session_id
               /\ Body.items = The(sess[c].payload).items)
              => /\ Body1.items = Body.items
                 /\ get_cart(cart, Body.session_id).items = Body.items
                 /\ get_cart(cart', Body.session_id) = get_cart(cart, Body.session_id)
                 /\ cart' = cart
        /\ \A c \in Clients, payload \in Payloads :
              (~db /\ UpsertBegin(c, payload))
              => /\ Body1.items = payload.items
                 /\ \A s \in Sessions : get_cart(cart', s) = get_cart(cart, s) ]_vars

\* a two-item cart was upserted, and the call in flight repeats that payload
C5_Witness ==
    /\ db /\ Returned("upsert_cart") /\ Len(Body.items) = 2
    /\ \E c \in Clients :
          /\ sess[c].pc = "write"
          /\ The(sess[c].payload).session_id = Body.session_id
          /\ The(sess[c].payload).items = Body.items
          /\ ~IsNone(sess[c].existing)

(* C6 as claimed: with no store, list_products, get_categories and         *)
(* get_cart answer with their empty or default result and no error, while  *)
(* upsert_cart ends in a failure and not in a successful cart response.    *)
C6_DegradedAsymmetry ==
    ~db =>
        /\ Returned("list_products") =>
               The(resp).status = "ok" /\ Body = [items |-> <<>>, total |-> 0]
        /\ Returned("get_categories") =>
               The(resp).status = "ok" /\ Body = FallbackCategories
        /\ Returned("get_cart") =>
               The(resp).status = "ok" /\ Body.items = <<>>
        /\ Returned("upsert_cart") => The(resp).status # "ok"

====
